---- MODULE Spec2Model ----
(***************************************************************************)
(* State-machine model of the two Modbus adapters of nio-blocks/modbus:    *)
(*   - Modbus     (modbus_block.py):     Modbus over TCP, one delivering   *)
(*                                       thread, recursive one-shot retry; *)
(*   - ModbusRTU  (modbus_rtu_block.py): Modbus over a serial line, many   *)
(*                                       delivering threads, a lock and a  *)
(*                                       waiting counter in front of it.   *)
(* The two classes are independent programs; each has its own variables,   *)
(* actions and specification (SpecTCP, SpecRTU).                           *)
(***************************************************************************)
EXTENDS Integers, Sequences, FiniteSets, TLC

(***************************************************************************)
(* Bounds of the model.                                                    *)
(***************************************************************************)
\* longest batch handed to Modbus.process_signals
MaxBatch == 3
\* process_signals calls are started only while fewer handles were created
MaxConnects == 3
\* threads delivering batches to ModbusRTU.process_signals
NThreads == 2
\* longest batch handed to ModbusRTU.process_signals
RtuMaxBatch == 2
\* ModbusRTU: a first attempt fails only while fewer handles were created
RtuMaxConnects == 2
\* ModbusRTU: calls are started only while _num_locks >= -MaxDrift
MaxDrift == 1
\* ModbusRTU under fairness: calls are started only while
\* _num_locks <= LiveDrift
LiveDrift == 1
\* ModbusRTU under fairness: longest batch handed to process_signals
LiveBatch == 1

(***************************************************************************)
(* Python values.                                                          *)
(***************************************************************************)
\* Python's None
None == [none |-> TRUE]
\* a Python int
PyInt(n) == [int |-> n]
\* d[k] = v on a dict d (a function from keys to values)
DictSet(d, k, v) == [x \in (DOMAIN d) \cup {k} |-> IF x = k THEN v ELSE d[x]]
\* the empty dict {}
EmptyDict == [x \in {} |-> None]

(***************************************************************************)
(* Inputs: what the expression properties evaluate to on a signal.         *)
(* "raise" stands for an evaluation that raises.                           *)
(***************************************************************************)
\* results of the address expression: text of an integer, other text, failure
AddressResults == {"0", "x", "raise"}
\* results of the value expression
ValueResults == {"True", "raise"}
\* an incoming signal, reduced to what the two expressions yield on it
Signals == [addr : AddressResults, val : ValueResults]
\* what a transport call can do: a truthy result, a falsy result,
\* ModbusIOException, any other exception
Outcomes == {"ok", "empty", "io", "other"}

\* batches of 1..n signals
RECURSIVE BatchesUpTo(_)
BatchesUpTo(n) ==
    IF n = 0 THEN {}
    ELSE BatchesUpTo(n - 1) \cup [1..n -> Signals]

(***************************************************************************)
(*                       Modbus (TCP)  modbus_block.py                     *)
(***************************************************************************)
\* FunctionName enum values
FunctionName ==
    {"read_coils", "read_discrete_inputs", "read_holding_registers",
     "read_input_registers", "write_coil", "write_coils",
     "write_register", "write_registers"}

VARIABLES
    tcp_function,   \* self.function_name.value (configuration)
    tcp_client,     \* self._client: 0 = None, n = the n-th handle created
    tcp_open,       \* the handles created and not closed since
    tcp_pc,         \* where the delivering thread is
    tcp_signals,    \* the batch of the running process_signals call
    tcp_idx,        \* position of the for loop in the batch
    tcp_params,     \* params of the running _execute
    tcp_retry,      \* retry argument of the innermost _execute frame
    tcp_output,     \* the local list output
    tcp_notified,   \* batches handed to notify_signals by the running call
    tcp_log         \* per signal of the batch: what was done for it

tcp_vars == <<tcp_function, tcp_client, tcp_open, tcp_pc, tcp_signals, tcp_idx,
              tcp_params, tcp_retry, tcp_output, tcp_notified, tcp_log>>

\* the ModbusRTU block
VARIABLES
    rtu_function,   \* self.function_name().value (configuration)
    rtu_client,     \* self._client: 0 = None, n = the n-th Instrument created
    rtu_open,       \* the Instruments whose serial port is open
    rtu_lock,       \* self._process_lock: the thread holding it, or NoThread
    rtu_num_locks,  \* self._num_locks
    rtu_pc,         \* per thread: where it is in process_signals
    rtu_nsignals,   \* per thread: len(signals) of its running call
    rtu_idx,        \* per thread: position of the for loop
    rtu_tmp,        \* per thread: _num_locks as read by += 1 / -= 1
    rtu_params,     \* per thread: params of the running _process_signal
    rtu_retry,      \* per thread: retries used by execute_with_retry
    rtu_output,     \* per thread: the local list output
    rtu_notified,   \* per thread: batches handed to notify_signals
    rtu_log,        \* per thread and signal: how far the signal got
    rtu_tries       \* per thread: what it did on the client for the signal
                    \* it holds the lock for

rtu_vars == <<rtu_function, rtu_client, rtu_open, rtu_lock, rtu_num_locks, rtu_pc,
              rtu_nsignals, rtu_idx, rtu_tmp, rtu_params, rtu_retry,
              rtu_output, rtu_notified, rtu_log, rtu_tries>>

\* per-thread variables a step of the gate leaves alone
rtu_call_vars == <<rtu_params, rtu_retry, rtu_output, rtu_notified>>

\* self._client = None
NoClient == 0

\* int(text): defined on the text of an integer, raises otherwise
IsIntText(s) == s \in {"0", "1"}
\* int(text) on the text of an integer
IntOf(s) == CASE s = "0" -> 0 [] s = "1" -> 1

\* Modbus._address: the integer, or None when evaluation or int() raises
TcpAddress(signal) ==
    IF signal.addr # "raise" /\ IsIntText(signal.addr)
    THEN PyInt(IntOf(signal.addr))
    ELSE None

\* C13 mutant: the single writes get the key of the multiple writes
TcpPrepareParamsBroken(modbus_function, signal) ==
    IF modbus_function \in {"write_coil", "write_register",
                            "write_coils", "write_registers"}
    THEN IF signal.val = "raise" THEN None
         ELSE DictSet(EmptyDict, "values", signal.val)
    ELSE EmptyDict
\* Modbus._prepare_params: a dict, or None when the value expression raises
TcpPrepareParams(modbus_function, signal) ==
    IF modbus_function \in {"write_coil", "write_register"}
    THEN IF signal.val = "raise" THEN None
         ELSE DictSet(EmptyDict, "value", signal.val)
    ELSE IF modbus_function \in {"write_coils", "write_registers"}
    THEN IF signal.val = "raise" THEN None
         ELSE DictSet(EmptyDict, "values", signal.val)
    ELSE EmptyDict

\* result.__dict__ of the response to attempt n for signal i of the batch
Result(i, n) == [signal |-> i, attempt |-> n]
\* Signal(result.__dict__) with signal.params = params
TcpSignal(result, params) == [result |-> result, params |-> params]

\* entry of tcp_log before the loop reaches the signal
NotSeen ==
    [seen |-> FALSE, built |-> FALSE, tries |-> <<>>, connects |-> 0,
     evals |-> 0]

\* Modbus._prepare_params: how often self.value(signal) is called
TcpValueEvaluations(modbus_function) ==
    IF modbus_function \in {"write_coil", "write_register"} THEN 1
    ELSE IF modbus_function \in {"write_coils", "write_registers"} THEN 1
    ELSE 0

\* the functions the block can be configured with: every FunctionName
ConfiguredFunctions == FunctionName

TcpInit ==
    /\ tcp_function \in ConfiguredFunctions
    /\ tcp_client = NoClient
    /\ tcp_open = {}
    /\ tcp_pc = "new"
    /\ tcp_signals = <<>>
    /\ tcp_idx = 0
    /\ tcp_params = None
    /\ tcp_retry = FALSE
    /\ tcp_output = <<>>
    /\ tcp_notified = <<>>
    /\ tcp_log = <<>>

\* Modbus._connect: a new client replaces self._client; nothing is called on
\* the client it replaces
TcpConnect ==
    /\ tcp_client' = tcp_client + 1
    /\ tcp_open' = tcp_open \cup {tcp_client + 1}

\* Modbus.configure
TcpConfigure ==
    /\ tcp_pc = "new"
    /\ TcpConnect
    /\ tcp_pc' = "idle"
    /\ UNCHANGED <<tcp_function, tcp_signals, tcp_idx, tcp_params, tcp_retry,
                   tcp_output, tcp_notified, tcp_log>>
    /\ UNCHANGED rtu_vars

\* process_signals is entered with a batch: output = []
TcpProcessSignals ==
    /\ tcp_pc = "idle"
    /\ tcp_client < MaxConnects
    /\ tcp_pc' = "loop"
    /\ tcp_signals' \in BatchesUpTo(MaxBatch)
    /\ tcp_idx' = 1
    /\ tcp_output' = <<>>
    /\ tcp_notified' = <<>>
    /\ tcp_log' = [k \in 1..Len(tcp_signals') |-> NotSeen]
    /\ tcp_params' = None
    /\ tcp_retry' = FALSE
    /\ UNCHANGED <<tcp_function, tcp_client, tcp_open>>
    /\ UNCHANGED rtu_vars

\* one pass through lines 53-59 of the for loop, up to the call of _execute
TcpIterate ==
    /\ tcp_pc = "loop"
    /\ tcp_idx <= Len(tcp_signals)
    /\ LET signal == tcp_signals[tcp_idx]
           address == TcpAddress(signal)
           params == TcpPrepareParams(tcp_function, signal)
           evals == TcpValueEvaluations(tcp_function)
       IN  IF params = None
           THEN \* params['address'] = address raises TypeError on None:
                \* the exception leaves process_signals
                /\ tcp_pc' = "raised"
                /\ tcp_log' = [tcp_log EXCEPT ![tcp_idx].seen = TRUE,
                                              ![tcp_idx].evals = evals]
                /\ UNCHANGED <<tcp_idx, tcp_params, tcp_retry>>
           ELSE IF address = None
           THEN \* continue
                /\ tcp_pc' = "loop"
                /\ tcp_idx' = tcp_idx + 1
                /\ tcp_log' = [tcp_log EXCEPT ![tcp_idx].seen = TRUE,
                                              ![tcp_idx].built = TRUE,
                                              ![tcp_idx].evals = evals]
                /\ UNCHANGED <<tcp_params, tcp_retry>>
           ELSE \* self._execute(modbus_function, params) is entered
                /\ tcp_pc' = "execute"
                /\ tcp_params' = DictSet(params, "address", address)
                /\ tcp_retry' = FALSE
                /\ tcp_log' = [tcp_log EXCEPT ![tcp_idx].seen = TRUE,
                                              ![tcp_idx].built = TRUE,
                                              ![tcp_idx].evals = evals]
                /\ UNCHANGED tcp_idx
    /\ UNCHANGED <<tcp_function, tcp_client, tcp_open, tcp_signals, tcp_output,
                   tcp_notified>>
    /\ UNCHANGED rtu_vars

\* C5 mutant: the recursive call does not say that it is the retry
TcpRetryArgumentBroken == FALSE
\* value of the retry argument in the recursive call of line 85
TcpRetryArgument == TRUE

\* what process_signals receives from the outermost _execute frame when the
\* innermost frame (retry = tcp_retry) ends with value; line 85 drops the
\* value of the recursive call
TcpReturned(retry, value) == IF retry THEN None ELSE value

\* _execute returned to line 60: lines 61-62 and the next iteration
TcpAfterExecute(output_signal) ==
    /\ tcp_output' = IF output_signal # None
                     THEN Append(tcp_output, output_signal)
                     ELSE tcp_output
    /\ tcp_idx' = tcp_idx + 1
    /\ tcp_pc' = "loop"
    /\ tcp_retry' = FALSE

\* C14 mutant: a Signal is built from every result, empty or not
TcpTruthyBroken(outcome) == outcome \in {"ok", "empty"}
\* `if result:` of line 76
TcpTruthy(outcome) == outcome = "ok"

\* C15 mutant: every exception is answered with a reconnect and a retry
TcpReconnectsBroken(outcome, retry) == outcome \in {"io", "other"} /\ ~retry
\* lines 80-81: the outcome is handled by a reconnect and a second attempt
TcpReconnects(outcome, retry) == outcome = "io" /\ ~retry

\* the transport call of line 75 and the handling of its outcome
TcpExecute(outcome) ==
    /\ tcp_pc = "execute"
    /\ LET n == Len(tcp_log[tcp_idx].tries) + 1
           logged == [tcp_log EXCEPT ![tcp_idx].tries = Append(@, outcome)]
       IN  IF TcpTruthy(outcome)
           THEN /\ TcpAfterExecute(
                      TcpReturned(tcp_retry,
                                  TcpSignal(Result(tcp_idx, n), tcp_params)))
                /\ tcp_log' = logged
                /\ UNCHANGED <<tcp_client, tcp_open>>
           ELSE IF TcpReconnects(outcome, tcp_retry)
           THEN \* reconnect and enter _execute again
                /\ TcpConnect
                /\ tcp_retry' = TcpRetryArgument
                /\ tcp_log' = [logged EXCEPT ![tcp_idx].connects = @ + 1]
                /\ UNCHANGED <<tcp_pc, tcp_idx, tcp_output>>
           ELSE \* falsy result, second ModbusIOException, other exception
                /\ TcpAfterExecute(TcpReturned(tcp_retry, None))
                /\ tcp_log' = logged
                /\ UNCHANGED <<tcp_client, tcp_open>>
    /\ UNCHANGED <<tcp_function, tcp_signals, tcp_params, tcp_notified>>
    /\ UNCHANGED rtu_vars

\* C11 mutant: notify_signals is called with whatever was collected
EmitsBroken(output) == TRUE
\* `if output:` (modbus_block.py line 63, modbus_rtu_block.py line 89)
Emits(output) == output # <<>>

\* lines 63-64: the loop is over
TcpNotify ==
    /\ tcp_pc = "loop"
    /\ tcp_idx > Len(tcp_signals)
    /\ tcp_notified' = IF Emits(tcp_output)
                       THEN Append(tcp_notified, tcp_output)
                       ELSE tcp_notified
    /\ tcp_pc' = "returned"
    /\ UNCHANGED <<tcp_function, tcp_client, tcp_open, tcp_signals, tcp_idx, tcp_params,
                   tcp_retry, tcp_output, tcp_log>>
    /\ UNCHANGED rtu_vars

\* the call of process_signals is over ("returned", or "raised" when an
\* exception left it): its frame is gone, the block waits for the next batch
TcpReturn ==
    /\ tcp_pc \in {"returned", "raised"}
    /\ tcp_pc' = "idle"
    /\ tcp_signals' = <<>>
    /\ tcp_idx' = 0
    /\ tcp_params' = None
    /\ tcp_retry' = FALSE
    /\ tcp_output' = <<>>
    /\ tcp_notified' = <<>>
    /\ tcp_log' = <<>>
    /\ UNCHANGED <<tcp_function, tcp_client, tcp_open>>
    /\ UNCHANGED rtu_vars

\* the steps of a configured block
TcpRun ==
    \/ TcpReturn
    \/ TcpProcessSignals
    \/ TcpIterate
    \/ \E outcome \in Outcomes : TcpExecute(outcome)
    \/ TcpNotify

TcpNext == TcpConfigure \/ TcpRun


(***************************************************************************)
(* Modbus (TCP): the claims.                                               *)
(***************************************************************************)
\* the running call of process_signals is over
TcpCallOver == tcp_pc \in {"returned", "raised"}
\* the loop is done with signal k of the batch
TcpFinished(k) ==
    /\ k \in DOMAIN tcp_log
    /\ tcp_log[k].seen
    /\ (k < tcp_idx \/ TcpCallOver)
\* the outputs collected for signal k
TcpOutputsOf(k) == {j \in DOMAIN tcp_output : tcp_output[j].result.signal = k}
\* the params process_signals passes to _execute for a signal
TcpParamsOf(signal) ==
    DictSet(TcpPrepareParams(tcp_function, signal), "address",
            TcpAddress(signal))
\* the transport call for signal k ended with a non-empty result
TcpSucceeded(k) ==
    /\ tcp_log[k].tries # <<>>
    /\ tcp_log[k].tries[Len(tcp_log[k].tries)] = "ok"

\* C5: per signal there are at most two attempts and at most one reconnect;
\* a second attempt is made exactly when the first raised ModbusIOException
\* and it follows the reconnect; after two ModbusIOExceptions the signal has
\* no output and the loop goes on (no exception leaves _execute); every
\* first attempt runs with retry = False.
TcpOneRetry ==
    /\ \A k \in DOMAIN tcp_log :
         LET tries == tcp_log[k].tries IN
         /\ Len(tries) <= 2
         /\ tcp_log[k].connects <= 1
         /\ tcp_log[k].connects = 1 <=> (tries # <<>> /\ tries[1] = "io")
         /\ Len(tries) = 2 => tries[1] = "io"
         /\ (TcpFinished(k) /\ tries # <<>> /\ tries[1] = "io")
               => Len(tries) = 2
         /\ (TcpFinished(k) /\ tries = <<"io", "io">>)
               => /\ TcpOutputsOf(k) = {}
                  /\ (tcp_pc = "raised" => tcp_idx # k)
    /\ tcp_pc = "raised" => tcp_log[tcp_idx].tries = <<>>
    /\ tcp_pc = "execute" =>
         (tcp_retry <=> Len(tcp_log[tcp_idx].tries) = 1)
    /\ tcp_pc # "execute" => ~tcp_retry

\* C5 witness: a signal failed twice with ModbusIOException and the next
\* signal of the batch is in its first attempt.
TcpOneRetryWitness ==
    /\ tcp_pc = "execute"
    /\ tcp_idx > 1
    /\ tcp_log[tcp_idx - 1].tries = <<"io", "io">>
    /\ tcp_log[tcp_idx].tries = <<>>

\* C6: every finished signal whose expressions evaluated and whose transport
\* call ended with a non-empty result (first or retried attempt) has exactly
\* one output, carrying that response and the params used, and the output is
\* in the batch handed to notify_signals.
TcpOneOutputPerSuccess ==
    \A k \in DOMAIN tcp_log :
       (TcpFinished(k) /\ TcpSucceeded(k)) =>
          /\ Cardinality(TcpOutputsOf(k)) = 1
          /\ \A j \in TcpOutputsOf(k) :
                tcp_output[j] =
                   TcpSignal(Result(k, Len(tcp_log[k].tries)),
                             TcpParamsOf(tcp_signals[k]))
          /\ tcp_pc = "returned" => tcp_notified = <<tcp_output>>

\* C7: a signal whose address does not resolve gets no transport call and no
\* output, and the signals after it are still processed: when the call is
\* over every signal of the batch was reached by the loop.
TcpBadAddressSkipped ==
    \A k \in DOMAIN tcp_log :
       (tcp_log[k].seen /\ TcpAddress(tcp_signals[k]) = None) =>
          /\ tcp_log[k].tries = <<>>
          /\ TcpOutputsOf(k) = {}
          /\ TcpCallOver => \A j \in DOMAIN tcp_log : tcp_log[j].seen

\* the outputs of the successful signals among k..Len(batch), in input order
RECURSIVE TcpExpectedFrom(_)
TcpExpectedFrom(k) ==
    IF k > Len(tcp_signals) THEN <<>>
    ELSE (IF TcpSucceeded(k)
          THEN <<TcpSignal(Result(k, Len(tcp_log[k].tries)),
                           TcpParamsOf(tcp_signals[k]))>>
          ELSE <<>>) \o TcpExpectedFrom(k + 1)

\* some signal of the batch has params that fail to build
TcpSomeBuildFails ==
    \E k \in DOMAIN tcp_signals :
       TcpPrepareParams(tcp_function, tcp_signals[k]) = None

\* C9: when a call is over on a batch in which some signal's params failed
\* to build, every signal was reached and the emitted batch is exactly the
\* outputs of the other, successful signals in input order.
TcpBuildFailureSkipped ==
    (TcpCallOver /\ TcpSomeBuildFails) =>
       /\ \A j \in DOMAIN tcp_log : tcp_log[j].seen
       /\ tcp_notified = IF TcpExpectedFrom(1) = <<>> THEN <<>>
                         ELSE <<TcpExpectedFrom(1)>>

\* the keys the configured function requires besides the address
TcpValueKeys ==
    IF tcp_function \in {"write_coil", "write_register"} THEN {"value"}
    ELSE IF tcp_function \in {"write_coils", "write_registers"} THEN {"values"}
    ELSE {}

\* C13: the params _execute is called with have exactly the keys of the
\* configured function: address and value for the single writes, address
\* and values for the multiple writes, address alone for the four reads;
\* address is the integer the address expression gave and value(s) what the
\* value expression gave; the value expression is evaluated at most once
\* per signal and never for a read.
TcpParamsByFunction ==
    /\ tcp_pc = "execute" =>
          /\ DOMAIN tcp_params = {"address"} \cup TcpValueKeys
          /\ tcp_params["address"] =
                PyInt(IntOf(tcp_signals[tcp_idx].addr))
          /\ \A key \in TcpValueKeys :
                tcp_params[key] = tcp_signals[tcp_idx].val
    /\ \A k \in DOMAIN tcp_log :
          /\ tcp_log[k].evals <= 1
          /\ TcpValueKeys = {} => tcp_log[k].evals = 0

\* C13 witness: write_coil with address "0" and value "True" reaches
\* _execute with {address: 0, value: True}.
TcpParamsByFunctionWitness ==
    /\ tcp_pc = "execute"
    /\ tcp_function = "write_coil"
    /\ tcp_signals[tcp_idx] = [addr |-> "0", val |-> "True"]
    /\ DOMAIN tcp_params = {"address", "value"}
    /\ tcp_params["address"] = PyInt(0)
    /\ tcp_params["value"] = "True"
    /\ tcp_log[tcp_idx].evals = 1

\* the attempt of this step on the signal in _execute ends with outcome
TcpAttemptEnds(outcome) ==
    /\ tcp_pc = "execute"
    /\ tcp_log'[tcp_idx].tries = Append(tcp_log[tcp_idx].tries, outcome)

\* C15: an attempt (first or retried) that raises anything but
\* ModbusIOException ends the signal in that step: the client and the open
\* handles are unchanged (no reconnect), there is no further attempt, the
\* output is unchanged and the loop goes on with the next signal (no
\* exception reaches process_signals); such a signal never has an output.
TcpOtherErrorFails ==
    /\ [][TcpAttemptEnds("other") =>
            /\ tcp_client' = tcp_client
            /\ tcp_open' = tcp_open
            /\ tcp_output' = tcp_output
            /\ tcp_pc' = "loop"
            /\ tcp_idx' = tcp_idx + 1
            /\ tcp_log'[tcp_idx].connects = tcp_log[tcp_idx].connects]_tcp_vars
    /\ [](\A k \in DOMAIN tcp_log :
            LET tries == tcp_log[k].tries IN
            (tries # <<>> /\ tries[Len(tries)] = "other") =>
               /\ k < tcp_idx
               /\ TcpOutputsOf(k) = {}
               /\ tcp_log[k].connects = Len(tries) - 1
               /\ tcp_pc # "raised" \/ tcp_idx # k)

\* C15 witness: the retried attempt of a signal raised another error and
\* the next signal of the batch is in its first attempt.
TcpOtherErrorFailsWitness ==
    /\ tcp_pc = "execute"
    /\ tcp_idx > 1
    /\ tcp_log[tcp_idx - 1].tries = <<"io", "other">>
    /\ tcp_log[tcp_idx].tries = <<>>

(***************************************************************************)
(*                  ModbusRTU (serial)  modbus_rtu_block.py                *)
(* A batch is its length: what the address and value expressions yield on  *)
(* a signal is drawn when _prepare_params evaluates them, the first place  *)
(* where the code looks at the signal.                                     *)
(***************************************************************************)
Threads == 1..NThreads
\* the lock is held by no thread
NoThread == 0

\* self._max_locks
MaxLocks == 5
\* the count property (its default)
RtuCount == 1
\* retries execute_with_retry grants per call
MaxRetry == 1

\* FunctionName codes the block is configured with in the model:
\* read_input_registers (the default) and write_single_holding_register
RtuConfiguredFunctions == {4, 6}

\* ModbusRTU._address: the integer, or None when evaluation or int() raises
RtuAddress(addr) ==
    IF addr # "raise" /\ IsIntText(addr) THEN PyInt(IntOf(addr)) ELSE None

\* the value expression is evaluated by _prepare_params and raises
RtuValueRaises(function, val) ==
    function \in {5, 6, 15, 16} /\ val = "raise"

\* ModbusRTU._prepare_params when it does not raise
RtuPrepareParams(function, addr, val) ==
    LET base == DictSet(DictSet(EmptyDict, "functioncode", PyInt(function)),
                        "registeraddress", RtuAddress(addr))
    IN  IF function \in {3, 4}
        THEN DictSet(base, "numberOfRegisters", PyInt(RtuCount))
        ELSE IF function \in {5, 6, 15, 16}
        THEN DictSet(base, "value", val)
        ELSE base

\* the response of the device to the call made for signal k of a batch
RtuResponse(k) == [signal |-> k]
\* ModbusRTU._process_response on a truthy response
RtuSignal(response, params) == [values |-> response, params |-> params]

RtuInit ==
    /\ rtu_function \in RtuConfiguredFunctions
    /\ rtu_client = NoClient
    /\ rtu_open = {}
    /\ rtu_lock = NoThread
    /\ rtu_num_locks = 0
    /\ rtu_pc = [t \in Threads |-> "new"]
    /\ rtu_nsignals = [t \in Threads |-> 0]
    /\ rtu_idx = [t \in Threads |-> 0]
    /\ rtu_tmp = [t \in Threads |-> 0]
    /\ rtu_params = [t \in Threads |-> None]
    /\ rtu_retry = [t \in Threads |-> 0]
    /\ rtu_output = [t \in Threads |-> <<>>]
    /\ rtu_notified = [t \in Threads |-> <<>>]
    /\ rtu_log = [t \in Threads |-> <<>>]
    /\ rtu_tries = [t \in Threads |-> <<>>]

\* C12 mutant: _connect leaves self._client as it is
RtuConnectBroken(open) ==
    /\ rtu_client' = rtu_client
    /\ rtu_open' = open \cup {rtu_client}
\* ModbusRTU._connect: a new Instrument, its serial port open, replaces
\* self._client; open is the set of open Instruments before the call
RtuConnect(open) ==
    /\ rtu_client' = rtu_client + 1
    /\ rtu_open' = open \cup {rtu_client + 1}

\* ModbusRTU._close: self._client.serial.close() closes the port of the
\* current Instrument, or raises (failed) and leaves it as it is
RtuClose(failed) == IF failed THEN rtu_open ELSE rtu_open \ {rtu_client}

\* an entry of rtu_tries: an operation on Instrument h and how it ended;
\* ev is "ok", "empty", "io" (an attempt that returned a truthy response,
\* a falsy one, or raised), "close", "close_failed" or "connect"
Event(ev, h) == [ev |-> ev, on |-> h]
\* thread t records events for the signal it is processing
RtuTried(t, events) == rtu_tries' = [rtu_tries EXCEPT ![t] = @ \o events]

\* ModbusRTU.configure; the threads deliver signals after it
RtuConfigure ==
    /\ \A t \in Threads : rtu_pc[t] = "new"
    /\ RtuConnect(rtu_open)
    /\ rtu_pc' = [t \in Threads |-> "idle"]
    /\ UNCHANGED <<rtu_function, rtu_lock, rtu_num_locks, rtu_nsignals,
                   rtu_idx, rtu_tmp, rtu_log, rtu_tries, rtu_call_vars>>
    /\ UNCHANGED tcp_vars

\* thread t enters process_signals with a batch: output = []
RtuProcessSignals(t) ==
    /\ rtu_pc[t] = "idle"
    /\ rtu_num_locks >= -MaxDrift
    /\ \E n \in 1..RtuMaxBatch :
          /\ rtu_nsignals' = [rtu_nsignals EXCEPT ![t] = n]
          /\ rtu_log' = [rtu_log EXCEPT ![t] = [k \in 1..n |-> "unseen"]]
    /\ rtu_pc' = [rtu_pc EXCEPT ![t] = "gate"]
    /\ rtu_idx' = [rtu_idx EXCEPT ![t] = 1]
    /\ rtu_output' = [rtu_output EXCEPT ![t] = <<>>]
    /\ rtu_notified' = [rtu_notified EXCEPT ![t] = <<>>]
    /\ UNCHANGED <<rtu_function, rtu_client, rtu_open, rtu_lock, rtu_num_locks,
                   rtu_tmp, rtu_params, rtu_retry, rtu_tries>>
    /\ UNCHANGED tcp_vars

\* C2 mutant: the test of line 79 with > for >=
RtuGateFullBroken == rtu_num_locks > MaxLocks
\* the test of line 79
RtuGateFull == rtu_num_locks >= MaxLocks

\* lines 79-82: the signal is skipped, or goes on to line 83
RtuGate(t) ==
    /\ rtu_pc[t] = "gate"
    /\ rtu_idx[t] <= rtu_nsignals[t]
    /\ IF RtuGateFull
       THEN /\ rtu_idx' = [rtu_idx EXCEPT ![t] = @ + 1]
            /\ rtu_log' = [rtu_log EXCEPT ![t][rtu_idx[t]] = "dropped"]
            /\ UNCHANGED rtu_pc
       ELSE /\ rtu_pc' = [rtu_pc EXCEPT ![t] = "inc_load"]
            /\ rtu_log' = [rtu_log EXCEPT ![t][rtu_idx[t]] = "admitted"]
            /\ UNCHANGED rtu_idx
    /\ UNCHANGED <<rtu_function, rtu_client, rtu_open, rtu_lock, rtu_num_locks,
                   rtu_nsignals, rtu_tmp, rtu_tries, rtu_call_vars>>
    /\ UNCHANGED tcp_vars

\* line 83, self._num_locks += 1, is a load and a store with no lock held
RtuIncLoad(t) ==
    /\ rtu_pc[t] = "inc_load"
    /\ rtu_tmp' = [rtu_tmp EXCEPT ![t] = rtu_num_locks]
    /\ rtu_pc' = [rtu_pc EXCEPT ![t] = "inc_store"]
    /\ UNCHANGED <<rtu_function, rtu_client, rtu_open, rtu_lock, rtu_num_locks,
                   rtu_nsignals, rtu_idx, rtu_log, rtu_tries, rtu_call_vars>>
    /\ UNCHANGED tcp_vars

RtuIncStore(t) ==
    /\ rtu_pc[t] = "inc_store"
    /\ rtu_num_locks' = rtu_tmp[t] + 1
    /\ rtu_tmp' = [rtu_tmp EXCEPT ![t] = 0]
    /\ rtu_pc' = [rtu_pc EXCEPT ![t] = "acquire"]
    /\ UNCHANGED <<rtu_function, rtu_client, rtu_open, rtu_lock, rtu_nsignals, rtu_idx,
                   rtu_log, rtu_tries, rtu_call_vars>>
    /\ UNCHANGED tcp_vars

\* C1 mutant: the lock is handed out while another thread holds it
RtuLockFreeBroken == TRUE
\* Lock.acquire of line 84: whether a thread may take the lock
RtuLockFree == rtu_lock = NoThread

\* line 84: with self._process_lock
RtuAcquire(t) ==
    /\ rtu_pc[t] = "acquire"
    /\ RtuLockFree
    /\ rtu_lock' = t
    /\ rtu_pc' = [rtu_pc EXCEPT ![t] = "prepare"]
    /\ UNCHANGED <<rtu_function, rtu_client, rtu_open, rtu_num_locks, rtu_nsignals,
                   rtu_idx, rtu_tmp, rtu_log, rtu_tries, rtu_call_vars>>
    /\ UNCHANGED tcp_vars

\* C16 mutant: the exception leaves with the lock still held
RtuRaiseBroken(t) ==
    /\ rtu_lock' = rtu_lock
    /\ rtu_pc' = [rtu_pc EXCEPT ![t] = "raised"]
    /\ rtu_params' = [rtu_params EXCEPT ![t] = None]
    /\ rtu_retry' = [rtu_retry EXCEPT ![t] = 0]
\* an exception leaves the with block of line 84 and process_signals: the
\* with statement releases the lock, line 88 is not reached
RtuRaise(t) ==
    /\ rtu_lock' = NoThread
    /\ rtu_pc' = [rtu_pc EXCEPT ![t] = "raised"]
    /\ rtu_params' = [rtu_params EXCEPT ![t] = None]
    /\ rtu_retry' = [rtu_retry EXCEPT ![t] = 0]

\* _process_signal returns output_signal (None or a Signal): lines 86-87
RtuProcessed(t, output_signal) ==
    /\ rtu_output' = [rtu_output EXCEPT
          ![t] = IF output_signal # None THEN Append(@, output_signal) ELSE @]
    /\ rtu_pc' = [rtu_pc EXCEPT ![t] = "release"]
    /\ rtu_params' = [rtu_params EXCEPT ![t] = None]
    /\ rtu_retry' = [rtu_retry EXCEPT ![t] = 0]

\* line 93: _prepare_params evaluates the expressions on the signal; then
\* execute_with_retry enters _execute
RtuPrepare(t) ==
    /\ rtu_pc[t] = "prepare"
    /\ \E addr \in AddressResults, val \in ValueResults :
          IF RtuValueRaises(rtu_function, val)
          THEN RtuRaise(t)
          ELSE /\ rtu_params' = [rtu_params EXCEPT
                     ![t] = RtuPrepareParams(rtu_function, addr, val)]
               /\ rtu_retry' = [rtu_retry EXCEPT ![t] = 0]
               /\ rtu_pc' = [rtu_pc EXCEPT ![t] = "call"]
               /\ UNCHANGED rtu_lock
    /\ UNCHANGED <<rtu_function, rtu_client, rtu_open, rtu_num_locks, rtu_nsignals,
                   rtu_idx, rtu_tmp, rtu_output, rtu_notified, rtu_log, rtu_tries>>
    /\ UNCHANGED tcp_vars

\* line 112: the call on the client returns a truthy response
RtuCallOk(t) ==
    /\ rtu_pc[t] = "call"
    /\ RtuProcessed(t, RtuSignal(RtuResponse(rtu_idx[t]), rtu_params[t]))
    /\ RtuTried(t, <<Event("ok", rtu_client)>>)
    /\ UNCHANGED <<rtu_function, rtu_client, rtu_open, rtu_lock, rtu_num_locks,
                   rtu_nsignals, rtu_idx, rtu_tmp, rtu_notified, rtu_log>>
    /\ UNCHANGED tcp_vars

\* line 112: the call returns a falsy response; _process_response gives None
RtuCallEmpty(t) ==
    /\ rtu_pc[t] = "call"
    /\ RtuProcessed(t, None)
    /\ RtuTried(t, <<Event("empty", rtu_client)>>)
    /\ UNCHANGED <<rtu_function, rtu_client, rtu_open, rtu_lock, rtu_num_locks,
                   rtu_nsignals, rtu_idx, rtu_tmp, rtu_notified, rtu_log>>
    /\ UNCHANGED tcp_vars

\* line 112 raises and execute_with_retry grants a retry: before_retry is next
RtuCallRetry(t) ==
    /\ rtu_pc[t] = "call"
    /\ rtu_retry[t] < MaxRetry
    /\ rtu_client < RtuMaxConnects
    /\ rtu_retry' = [rtu_retry EXCEPT ![t] = @ + 1]
    /\ rtu_pc' = [rtu_pc EXCEPT ![t] = "before_retry"]
    /\ RtuTried(t, <<Event("io", rtu_client)>>)
    /\ UNCHANGED <<rtu_function, rtu_client, rtu_open, rtu_lock, rtu_num_locks,
                   rtu_nsignals, rtu_idx, rtu_tmp, rtu_params, rtu_output,
                   rtu_notified, rtu_log>>
    /\ UNCHANGED tcp_vars

\* line 112 raises and execute_with_retry is out of retries: the exception
\* leaves execute_with_retry
RtuCallFail(t) ==
    /\ rtu_pc[t] = "call"
    /\ rtu_retry[t] >= MaxRetry
    /\ RtuRaise(t)
    /\ RtuTried(t, <<Event("io", rtu_client)>>)
    /\ UNCHANGED <<rtu_function, rtu_client, rtu_open, rtu_num_locks, rtu_nsignals,
                   rtu_idx, rtu_tmp, rtu_output, rtu_notified, rtu_log>>
    /\ UNCHANGED tcp_vars

\* line 112 raises and the executor, out of retries, ends the call with no
\* result and no exception
RtuCallGiveUp(t) ==
    /\ rtu_pc[t] = "call"
    /\ rtu_retry[t] >= MaxRetry
    /\ RtuProcessed(t, None)
    /\ RtuTried(t, <<Event("io", rtu_client)>>)
    /\ UNCHANGED <<rtu_function, rtu_client, rtu_open, rtu_lock, rtu_num_locks,
                   rtu_nsignals, rtu_idx, rtu_tmp, rtu_notified, rtu_log>>
    /\ UNCHANGED tcp_vars

\* C18 mutant: the exception of a failed close leaves _close
RtuCloseEscapesBroken(failed) == failed
\* lines 164-169: whether an exception of serial.close() leaves _close; the
\* bare except catches it
RtuCloseEscapes(failed) == FALSE

\* before_retry: _close, _connect; then _execute is entered again
RtuBeforeRetry(t) ==
    /\ rtu_pc[t] = "before_retry"
    /\ \E failed \in BOOLEAN :
          LET closed == Event(IF failed THEN "close_failed" ELSE "close",
                              rtu_client)
          IN  IF RtuCloseEscapes(failed)
              THEN /\ RtuRaise(t)
                   /\ RtuTried(t, <<closed>>)
                   /\ UNCHANGED <<rtu_client, rtu_open, rtu_output>>
              ELSE /\ RtuConnect(RtuClose(failed))
                   /\ RtuTried(t, <<closed, Event("connect", rtu_client')>>)
                   /\ rtu_pc' = [rtu_pc EXCEPT ![t] = "call"]
                   /\ UNCHANGED <<rtu_lock, rtu_params, rtu_retry, rtu_output>>
    /\ UNCHANGED <<rtu_function, rtu_num_locks, rtu_nsignals, rtu_idx,
                   rtu_tmp, rtu_log, rtu_notified>>
    /\ UNCHANGED tcp_vars

\* the with block of line 84 ends
RtuRelease(t) ==
    /\ rtu_pc[t] = "release"
    /\ rtu_lock' = NoThread
    /\ rtu_pc' = [rtu_pc EXCEPT ![t] = "dec_load"]
    /\ rtu_tries' = [rtu_tries EXCEPT ![t] = <<>>]
    /\ UNCHANGED <<rtu_function, rtu_client, rtu_open, rtu_num_locks, rtu_nsignals,
                   rtu_idx, rtu_tmp, rtu_log, rtu_call_vars>>
    /\ UNCHANGED tcp_vars

\* line 88, self._num_locks -= 1, is a load and a store with no lock held
RtuDecLoad(t) ==
    /\ rtu_pc[t] = "dec_load"
    /\ rtu_tmp' = [rtu_tmp EXCEPT ![t] = rtu_num_locks]
    /\ rtu_pc' = [rtu_pc EXCEPT ![t] = "dec_store"]
    /\ UNCHANGED <<rtu_function, rtu_client, rtu_open, rtu_lock, rtu_num_locks,
                   rtu_nsignals, rtu_idx, rtu_log, rtu_tries, rtu_call_vars>>
    /\ UNCHANGED tcp_vars

RtuDecStore(t) ==
    /\ rtu_pc[t] = "dec_store"
    /\ rtu_num_locks' = rtu_tmp[t] - 1
    /\ rtu_tmp' = [rtu_tmp EXCEPT ![t] = 0]
    /\ rtu_log' = [rtu_log EXCEPT ![t][rtu_idx[t]] = "done"]
    /\ rtu_idx' = [rtu_idx EXCEPT ![t] = @ + 1]
    /\ rtu_pc' = [rtu_pc EXCEPT ![t] = "gate"]
    /\ UNCHANGED <<rtu_function, rtu_client, rtu_open, rtu_lock, rtu_nsignals,
                   rtu_tries, rtu_call_vars>>
    /\ UNCHANGED tcp_vars

\* lines 89-90: the loop is over
RtuNotify(t) ==
    /\ rtu_pc[t] = "gate"
    /\ rtu_idx[t] > rtu_nsignals[t]
    /\ rtu_notified' = [rtu_notified EXCEPT
          ![t] = IF Emits(rtu_output[t]) THEN Append(@, rtu_output[t]) ELSE @]
    /\ rtu_pc' = [rtu_pc EXCEPT ![t] = "returned"]
    /\ UNCHANGED <<rtu_function, rtu_client, rtu_open, rtu_lock, rtu_num_locks,
                   rtu_nsignals, rtu_idx, rtu_tmp, rtu_params, rtu_retry,
                   rtu_output, rtu_log, rtu_tries>>
    /\ UNCHANGED tcp_vars

\* the call of process_signals is over ("returned", or "raised" when an
\* exception left it): its frame is gone, the thread may deliver again
RtuReturn(t) ==
    /\ rtu_pc[t] \in {"returned", "raised"}
    /\ rtu_pc' = [rtu_pc EXCEPT ![t] = "idle"]
    /\ rtu_nsignals' = [rtu_nsignals EXCEPT ![t] = 0]
    /\ rtu_idx' = [rtu_idx EXCEPT ![t] = 0]
    /\ rtu_output' = [rtu_output EXCEPT ![t] = <<>>]
    /\ rtu_notified' = [rtu_notified EXCEPT ![t] = <<>>]
    /\ rtu_log' = [rtu_log EXCEPT ![t] = <<>>]
    /\ rtu_tries' = [rtu_tries EXCEPT ![t] = <<>>]
    /\ UNCHANGED <<rtu_function, rtu_client, rtu_open, rtu_lock, rtu_num_locks, rtu_tmp,
                   rtu_params, rtu_retry>>
    /\ UNCHANGED tcp_vars

(***************************************************************************)
(* The specifications: one adapter runs, the other is not instantiated     *)
(* (its variables stay at their values in a block that is never used).     *)
(***************************************************************************)
vars == <<tcp_vars, rtu_vars>>

\* a Modbus block nobody configures: the constructed object, default function
TcpAbsent == TcpInit /\ tcp_function = "read_coils"
\* a ModbusRTU block nobody configures
RtuAbsent == RtuInit /\ rtu_function = 4

\* the steps of the threads of a configured block
RtuRun ==
    \E t \in Threads :
          \/ RtuProcessSignals(t)
          \/ RtuGate(t)
          \/ RtuIncLoad(t)
          \/ RtuIncStore(t)
          \/ RtuAcquire(t)
          \/ RtuPrepare(t)
          \/ RtuCallOk(t)
          \/ RtuCallEmpty(t)
          \/ RtuCallRetry(t)
          \/ RtuCallFail(t)
          \/ RtuCallGiveUp(t)
          \/ RtuBeforeRetry(t)
          \/ RtuRelease(t)
          \/ RtuDecLoad(t)
          \/ RtuDecStore(t)
          \/ RtuNotify(t)
          \/ RtuReturn(t)

RtuNext == RtuConfigure \/ RtuRun

\* Modbus (TCP) alone
InitTCP == TcpInit /\ RtuAbsent
SpecTCP == InitTCP /\ [][TcpNext]_vars

\* ModbusRTU alone, NThreads threads delivering
InitRTU == RtuInit /\ TcpAbsent
SpecRTU == InitRTU /\ [][RtuNext]_vars

\* ModbusRTU with its scheduling assumptions. Batches of up to LiveBatch
\* signals are delivered while the count has not drifted beyond LiveDrift;
\* the environment need not deliver at all.
RtuDeliver(t) ==
    /\ rtu_num_locks <= LiveDrift
    /\ RtuProcessSignals(t)
    /\ rtu_nsignals'[t] <= LiveBatch

\* the steps thread t takes on its own inside process_signals, the
\* acquisition of the lock apart
RtuProgress(t) ==
    \/ RtuGate(t)
    \/ RtuIncLoad(t)
    \/ RtuIncStore(t)
    \/ RtuPrepare(t)
    \/ RtuCallOk(t)
    \/ RtuCallEmpty(t)
    \/ RtuCallRetry(t)
    \/ RtuCallFail(t)
    \/ RtuCallGiveUp(t)
    \/ RtuBeforeRetry(t)
    \/ RtuRelease(t)
    \/ RtuDecLoad(t)
    \/ RtuDecStore(t)
    \/ RtuNotify(t)

RtuLiveNext ==
    \/ RtuConfigure
    \/ \E t \in Threads :
          \/ RtuDeliver(t)
          \/ RtuAcquire(t)
          \/ RtuProgress(t)
          \/ RtuReturn(t)

\* a running thread keeps running and every transport attempt returns or
\* raises (weak fairness of the thread's own steps); the lock is granted
\* fairly (strong fairness of its acquisition: a waiting thread sees the
\* lock free again and again and is not passed over forever)
RtuFairness ==
    \A t \in Threads :
       /\ WF_vars(RtuProgress(t))
       /\ SF_vars(RtuAcquire(t))

SpecRTULive == InitRTU /\ [][RtuLiveNext]_vars /\ RtuFairness

\* one of the two blocks is instantiated and runs, the other never is
InitEither == InitTCP \/ InitRTU
\* configure of the one block that is instantiated
TcpConfigureAlone == RtuAbsent /\ TcpConfigure
RtuConfigureAlone == TcpAbsent /\ RtuConfigure
NextEither ==
    \/ TcpConfigureAlone
    \/ TcpRun
    \/ RtuConfigureAlone
    \/ RtuRun
SpecEither == InitEither /\ [][NextEither]_vars

(***************************************************************************)
(* ModbusRTU: the claims.                                                  *)
(***************************************************************************)
\* thread t is inside the with block of line 84
RtuInLock(t) == rtu_pc[t] \in {"prepare", "call", "before_retry", "release"}
\* thread t is in a transport operation on the client: the call of line 112
\* (first or retried attempt) or the reconnect of before_retry
RtuOnTheLine(t) == rtu_pc[t] \in {"call", "before_retry"}
\* thread t is not inside process_signals
RtuOutside(t) == rtu_pc[t] \in {"new", "idle", "returned", "raised"}
\* the running call of thread t is over
RtuCallOver(t) == rtu_pc[t] \in {"returned", "raised"}
\* the outputs thread t collected for signal k of its batch
RtuOutputsOf(t, k) ==
    {j \in DOMAIN rtu_output[t] : rtu_output[t][j].values.signal = k}

\* C1: a thread is in a transport operation (attempt, retried attempt or
\* reconnect) only while it holds _process_lock, so at most one thread is.
RtuOneOnTheLine ==
    /\ \A t \in Threads : RtuInLock(t) => rtu_lock = t
    /\ Cardinality({t \in Threads : RtuOnTheLine(t)}) <= 1

\* C1 witness: a thread is in its retried attempt while another thread
\* waits for the lock.
RtuOneOnTheLineWitness ==
    \E t, u \in Threads :
       /\ rtu_pc[t] = "call" /\ rtu_retry[t] = 1
       /\ rtu_pc[u] = "acquire"

\* thread t takes the step of the gate for a signal that arrives while the
\* waiting count is at or above the ceiling
RtuArrivesAtCeiling(t) ==
    /\ rtu_pc[t] = "gate"
    /\ rtu_idx[t] <= rtu_nsignals[t]
    /\ rtu_num_locks >= MaxLocks
    /\ <<rtu_pc[t], rtu_idx[t], rtu_log[t]>>' #
          <<rtu_pc[t], rtu_idx[t], rtu_log[t]>>

\* C2: a signal that arrives while _num_locks >= 5 is dropped in that one
\* step: the loop is at the next signal, the thread neither waits for the
\* lock nor builds params nor calls the transport, its output is unchanged,
\* and so are _num_locks, the lock and the client; a dropped signal never
\* has an output.
RtuDroppedAtCeiling ==
    /\ [][\A t \in Threads :
            RtuArrivesAtCeiling(t) =>
               /\ rtu_pc'[t] = "gate"
               /\ rtu_idx'[t] = rtu_idx[t] + 1
               /\ rtu_log'[t][rtu_idx[t]] = "dropped"
               /\ UNCHANGED <<rtu_num_locks, rtu_lock, rtu_client, rtu_open, rtu_tmp,
                              rtu_params, rtu_retry, rtu_output,
                              rtu_notified>>]_vars
    /\ [](\A t \in Threads : \A k \in DOMAIN rtu_log[t] :
            rtu_log[t][k] = "dropped" => RtuOutputsOf(t, k) = {})

\* C2 witness: a signal was dropped and a later signal of the same batch is
\* at the gate.
RtuDroppedAtCeilingWitness ==
    \E t \in Threads :
       /\ rtu_pc[t] = "gate"
       /\ rtu_idx[t] = 2
       /\ rtu_log[t][1] = "dropped"
       /\ rtu_idx[t] <= rtu_nsignals[t]

\* C3: the waiting count never exceeds the ceiling.
RtuCeilingRespected == rtu_num_locks <= MaxLocks

\* C4: when the call of a thread is over every signal it admitted has
\* released the lock and decremented the count; when no thread is inside
\* process_signals the count is 0 and the lock is free.
RtuGateBalanced ==
    /\ \A t \in Threads :
          RtuCallOver(t) =>
             \A k \in DOMAIN rtu_log[t] : rtu_log[t][k] # "admitted"
    /\ (\A t \in Threads : RtuOutside(t)) =>
          rtu_num_locks = 0 /\ rtu_lock = NoThread

\* C8: the transport is only called with a register address that resolved
\* to an integer and a value that evaluated, and no output carries anything
\* else.
RtuParamsDetermined ==
    \A t \in Threads :
       /\ RtuOnTheLine(t) =>
             /\ rtu_params[t]["registeraddress"] # None
             /\ "value" \in DOMAIN rtu_params[t] =>
                   rtu_params[t]["value"] # "raise"
       /\ \A j \in DOMAIN rtu_output[t] :
             rtu_output[t][j].params["registeraddress"] # None

\* C10: a call of process_signals is never left by an exception: when it is
\* over every signal of the batch was examined by the gate and was dropped
\* or fully processed, and the outputs collected were emitted.
RtuBatchSurvivesFailure ==
    \A t \in Threads :
       RtuCallOver(t) =>
          /\ rtu_pc[t] = "returned"
          /\ \A k \in DOMAIN rtu_log[t] : rtu_log[t][k] \in {"dropped", "done"}
          /\ rtu_notified[t] = IF rtu_output[t] = <<>> THEN <<>>
                               ELSE <<rtu_output[t]>>

\* the attempts (calls of line 112) among the events of a trace
RtuAttempts(tr) == SelectSeq(tr, LAMBDA e : e.ev \in {"ok", "empty", "io"})
\* the connects among the events of a trace
RtuConnects(tr) == SelectSeq(tr, LAMBDA e : e.ev = "connect")

\* C12: per signal at most two attempts are made and at most one reconnect;
\* every attempt after the first directly follows a connect and is made on
\* the Instrument that connect created; the retry counter is the number of
\* attempts made; when the first and the retried attempt both raised, one
\* connect was made for the signal (with the one of configure: two), the
\* executor has ended (no further attempt) and the signal has no output.
RtuOneRetriedAttempt ==
    \A t \in Threads :
       LET tr == rtu_tries[t]
           att == RtuAttempts(tr)
           con == RtuConnects(tr)
       IN  /\ Len(att) <= 2
           /\ Len(con) <= 1
           /\ \A i \in DOMAIN tr :
                 (i > 1 /\ tr[i].ev \in {"ok", "empty", "io"}) =>
                    /\ tr[i - 1].ev = "connect"
                    /\ tr[i].on = tr[i - 1].on
           /\ rtu_pc[t] = "call" => Len(att) = rtu_retry[t]
           /\ (Len(att) = 2 /\ att[1].ev = "io" /\ att[2].ev = "io") =>
                 /\ Len(con) = 1
                 /\ con[1].on = att[1].on + 1
                 /\ att[2].on = con[1].on
                 /\ rtu_lock = t => rtu_client = att[1].on + 1
                 /\ rtu_pc[t] \in {"release", "raised"}
                 /\ RtuOutputsOf(t, rtu_idx[t]) = {}

\* C12 witness: read registers, the attempt on the Instrument of configure
\* and the retried attempt both raised; _connect was called twice in all.
RtuOneRetriedAttemptWitness ==
    \E t \in Threads :
       /\ rtu_function = 4
       /\ rtu_pc[t] \in {"release", "raised"}
       /\ Len(rtu_tries[t]) = 4
       /\ rtu_tries[t][1] = Event("io", 1)
       /\ rtu_tries[t][4] = Event("io", 2)
       /\ rtu_client = 2

\* C18: every step that ends before_retry, whether serial.close() raised or
\* not, installs an Instrument that did not exist before, with its port
\* open, and goes on to the retried attempt with the lock still held; in
\* the retried attempt the trace is: failed attempt, close (or failed
\* close) of the old Instrument, connect of the current one.
RtuCloseFailureSwallowed ==
    /\ [][\A t \in Threads :
            (rtu_pc[t] = "before_retry" /\ rtu_pc'[t] # "before_retry") =>
               /\ rtu_pc'[t] = "call"
               /\ rtu_client' = rtu_client + 1
               /\ rtu_client' \notin rtu_open
               /\ rtu_client' \in rtu_open'
               /\ rtu_lock' = t]_vars
    /\ [](\A t \in Threads :
            (rtu_pc[t] = "call" /\ rtu_retry[t] > 0) =>
               LET tr == rtu_tries[t] IN
               /\ Len(tr) = 3
               /\ tr[1].ev = "io"
               /\ tr[2].ev \in {"close", "close_failed"}
               /\ tr[2].on = tr[1].on
               /\ tr[3] = Event("connect", rtu_client)
               /\ rtu_client # tr[1].on)

\* C18 witness: serial.close() raised, _connect ran all the same and the
\* retried attempt succeeded on the new Instrument.
RtuCloseFailureSwallowedWitness ==
    \E t \in Threads :
       /\ rtu_pc[t] = "release"
       /\ rtu_tries[t] = <<Event("io", 1), Event("close_failed", 1),
                           Event("connect", 2), Event("ok", 2)>>
       /\ rtu_client = 2

\* C19: after configure, a step that changes self._client or the set of
\* open Instruments is the reconnect of a thread that holds the lock, whose
\* own attempt just raised, while no other thread is in a transport
\* operation.
RtuHandleOwnedByLockHolder ==
    [][(<<rtu_client, rtu_open>>' # <<rtu_client, rtu_open>>
          /\ \E t \in Threads : rtu_pc[t] # "new") =>
         \E t \in Threads :
            /\ rtu_lock = t
            /\ rtu_pc[t] = "before_retry"
            /\ rtu_tries[t] # <<>>
            /\ rtu_tries[t][Len(rtu_tries[t])] = Event("io", rtu_client)
            /\ \A u \in Threads \ {t} : ~RtuOnTheLine(u)]_vars

\* C19 witness: a thread replaced the Instrument and finished its retried
\* attempt while another thread, admitted, waits for the lock.
RtuHandleOwnedByLockHolderWitness ==
    \E t, u \in Threads :
       /\ rtu_pc[t] = "release"
       /\ RtuConnects(rtu_tries[t]) # <<>>
       /\ rtu_lock = t
       /\ rtu_pc[u] = "acquire"

\* C20: with fewer threads than the ceiling no signal is ever dropped by
\* the gate.
RtuNoSheddingBelowCeiling ==
    NThreads < MaxLocks =>
       \A t \in Threads : \A k \in DOMAIN rtu_log[t] :
          rtu_log[t][k] # "dropped"

(***************************************************************************)
(* Both blocks: the claims.                                                *)
(***************************************************************************)
\* the signals of the batch that the outputs of a list came from, in the
\* order of the list
TcpSources(output) == [j \in DOMAIN output |-> output[j].result.signal]
RtuSources(output) == [j \in DOMAIN output |-> output[j].values.signal]
\* a sequence of numbers is strictly increasing
Increasing(seq) == \A i, j \in DOMAIN seq : i < j => seq[i] < seq[j]

\* C11: in a call of process_signals notify_signals is called at most once;
\* when it was called the loop is over (every signal of the batch was
\* dropped or processed to the end), the batch it got is the whole list
\* output, that list is not empty and its outputs are in the order of the
\* signals they came from; a call that returns with outputs collected has
\* emitted them.
NotifiedOnceAfterLoop ==
    /\ Len(tcp_notified) <= 1
    /\ tcp_notified # <<>> =>
          /\ tcp_pc = "returned"
          /\ tcp_notified = <<tcp_output>>
          /\ tcp_output # <<>>
          /\ \A k \in DOMAIN tcp_log : tcp_log[k].seen
          /\ tcp_idx = Len(tcp_signals) + 1
    /\ Increasing(TcpSources(tcp_output))
    /\ (tcp_pc = "returned" /\ tcp_output # <<>>) => tcp_notified # <<>>
    /\ \A t \in Threads :
          /\ Len(rtu_notified[t]) <= 1
          /\ rtu_notified[t] # <<>> =>
                /\ rtu_pc[t] = "returned"
                /\ rtu_notified[t] = <<rtu_output[t]>>
                /\ rtu_output[t] # <<>>
                /\ \A k \in DOMAIN rtu_log[t] :
                      rtu_log[t][k] \in {"dropped", "done"}
                /\ rtu_idx[t] = rtu_nsignals[t] + 1
          /\ Increasing(RtuSources(rtu_output[t]))
          /\ (rtu_pc[t] = "returned" /\ rtu_output[t] # <<>>) =>
                rtu_notified[t] # <<>>

\* C11 witness: a batch of three whose second signal gave no output was
\* emitted as the outputs of the first and the third.
NotifiedOnceAfterLoopWitness ==
    /\ tcp_pc = "returned"
    /\ Len(tcp_signals) = 3
    /\ TcpSources(tcp_output) = <<1, 3>>
    /\ tcp_notified = <<tcp_output>>

\* C14: an output is appended only by the step in which an attempt returns
\* a non-empty result, and it is that result with the params of that call;
\* no output belongs to a signal the loop has not reached; a signal whose
\* last attempt returned an empty result or raised has no output; what is
\* emitted is the list output.
OutputOnlyFromResult ==
    /\ [][(tcp_output' # tcp_output /\ tcp_output' # <<>>) =>
            /\ TcpAttemptEnds("ok")
            /\ tcp_output' =
                  Append(tcp_output,
                         [result |-> Result(tcp_idx,
                                            Len(tcp_log'[tcp_idx].tries)),
                          params |-> tcp_params])]_vars
    /\ [][\A t \in Threads :
            (rtu_output'[t] # rtu_output[t] /\ rtu_output'[t] # <<>>) =>
               /\ rtu_pc[t] = "call"
               /\ rtu_tries'[t] = Append(rtu_tries[t], Event("ok", rtu_client))
               /\ rtu_output'[t] =
                     Append(rtu_output[t],
                            [values |-> RtuResponse(rtu_idx[t]),
                             params |-> rtu_params[t]])]_vars
    /\ [](/\ \A j \in DOMAIN tcp_output :
               /\ tcp_output[j].result.signal \in 1..tcp_idx
               /\ tcp_output[j].result.signal \in DOMAIN tcp_signals
          /\ \A k \in DOMAIN tcp_log :
               LET tries == tcp_log[k].tries IN
               (tries # <<>> /\ tries[Len(tries)] # "ok"
                   /\ (k < tcp_idx \/ TcpCallOver))
                  => TcpOutputsOf(k) = {}
          /\ \A b \in DOMAIN tcp_notified : tcp_notified[b] = tcp_output)
    /\ [](\A t \in Threads :
            /\ \A j \in DOMAIN rtu_output[t] :
                  rtu_output[t][j].values.signal \in 1..rtu_idx[t]
            /\ (rtu_tries[t] # <<>>
                   /\ rtu_tries[t][Len(rtu_tries[t])].ev \in {"empty", "io"}
                   /\ rtu_pc[t] \in {"release", "raised"})
                  => RtuOutputsOf(t, rtu_idx[t]) = {}
            /\ \A b \in DOMAIN rtu_notified[t] :
                  rtu_notified[t][b] = rtu_output[t])

\* C14 witness: of a batch of two, the first signal got an empty result and
\* the second a result; the batch emitted holds the output of the second.
OutputOnlyFromResultWitness ==
    /\ tcp_pc = "returned"
    /\ Len(tcp_signals) = 2
    /\ tcp_log[1].tries = <<"empty">>
    /\ tcp_log[2].tries = <<"ok">>
    /\ TcpSources(tcp_output) = <<2>>
    /\ tcp_notified = <<tcp_output>>

\* C17: a configured block has exactly one open handle, the current one:
\* no handle that was replaced is still open.
OneLiveSession ==
    /\ tcp_pc # "new" => tcp_client # NoClient /\ tcp_open = {tcp_client}
    /\ (\E t \in Threads : rtu_pc[t] # "new") =>
          rtu_client # NoClient /\ rtu_open = {rtu_client}

\* C16: under the scheduling assumptions every thread that was admitted
\* and waits for the lock gets it, every thread that holds the lock gives
\* it up, and every call of process_signals ends (it returns, or an
\* exception leaves it).
RtuNoThreadBlocked ==
    \A t \in Threads :
       /\ (rtu_pc[t] = "acquire") ~> (rtu_lock = t)
       /\ (rtu_lock = t) ~> (rtu_lock # t)
       /\ (~RtuOutside(t)) ~> RtuCallOver(t)

\* C16 witness: after a call that an exception left (its count was never
\* taken back: two threads inside, a count of three) a thread waits for
\* the lock while the other thread holds it in a retried attempt.
RtuNoThreadBlockedWitness ==
    \E t, u \in Threads :
       /\ rtu_pc[t] = "acquire"
       /\ rtu_lock = u
       /\ rtu_num_locks = 3
       /\ rtu_pc[u] = "call"
       /\ rtu_retry[u] = 1

====
